---- MODULE Spec2Model ----
(***************************************************************************)
(* Model of src/main.py: the service-desk triage script followed by the   *)
(* RAG (retrieval-augmented answer) pipeline over the PDF policies.       *)
(*                                                                         *)
(* The script is sequential.  Each step of it that calls a provider,      *)
(* sleeps, or takes a branch is one action; pc is the position in main()  *)
(* or in the function main() is currently inside.  Everything outside the *)
(* script (the environment, the PDF folder, the outcome of every provider *)
(* call, the text the model answers) is a nondeterministic input.         *)
(* Strings are sequences of one-character strings, so that strip() and    *)
(* rstrip() are computed character by character.                          *)
(***************************************************************************)
EXTENDS Integers, Sequences, FiniteSets, TLC

\* ---------------------------------------------------------------- bounds
\* number of *.pdf files the docs folder may hold
MaxPdf == 2
\* pages a PDF that loads may have
MaxPages == 1
\* chunks the splitter may produce from the loaded pages
MaxChunks == 2
\* length of the tail (punctuation, blanks) the model may add to its text
MaxSuffix == 2

\* ------------------------------------------------------ program constants
\* len(testes), the fixed list of test messages
NumTestes == 6
\* search_kwargs "k": the retriever returns at most TopK chunks
TopK == 4

\* "Não sei"
Sentinel == <<"N", "ã", "o", " ", "s", "e", "i">>
\* the characters of rstrip(".!?")
RStripChars == {".", "!", "?"}
\* the characters str.strip() removes
Whitespace == {" ", "\n"}

VARIABLES
    apiKey,             \* os.getenv("GOOGLE_API_KEY"): "absent", "empty", "present"
    nPdf,               \* number of *.pdf files in the docs folder
    pc,                 \* position of the script
    llm,                \* TRUE once the model and embedding clients exist
    msg,                \* index in testes of msg_teste (both loops over testes)
    file,               \* index of the file of the glob loop
    i,                  \* index of the chunk of the embedding loop
    docs,               \* setup_rag_chain: loaded pages, each the index of its file
    chunks,             \* setup_rag_chain: the chunks of the splitter
    vectorstore,        \* setup_rag_chain: the index under construction (or None)
    retriever,          \* main: the retriever (the index it searches), or None
    document_chain,     \* main: TRUE when the document chain exists, FALSE for None
    docs_relacionados,  \* perguntar_politica_rag: what the retriever returned
    answer,             \* perguntar_politica_rag: <<>> or <<what the chain returned>>
    resposta,           \* main: <<>> or <<the last dict perguntar_politica_rag returned>>
    lastRag,            \* how the last perguntar_politica_rag call ended
    triageCalls,        \* per test message: triagem_chain.invoke calls issued
    loadCalls,          \* per file: loader.load() calls issued
    loaded,             \* number of files whose load returned
    embedCalls,         \* per chunk: embedding calls issued
    embedOk,            \* per chunk: outcome of its embedding call
    ragCalls,           \* per test message: perguntar_politica_rag calls issued
    retrieverCalls,     \* retriever.invoke calls of the current (last) RAG query
    chainCalls,         \* document_chain.invoke calls of the current (last) RAG query
    sleeps,             \* per loop: time.sleep calls made
    unslept,            \* the last provider call no sleep has followed yet
    failed              \* the loops in which some item raised (and was logged)

vars == <<apiKey, nPdf, pc, llm, msg, file, i, docs, chunks, vectorstore,
          retriever, document_chain, docs_relacionados, answer, resposta,
          lastRag, triageCalls, loadCalls, loaded, embedCalls, embedOk, ragCalls,
          retrieverCalls, chainCalls, sleeps, unslept, failed>>

\* ------------------------------------------------------------ pure helpers
RECURSIVE RStrip(_, _)
\* s.rstrip(chars)
RStrip(s, chars) ==
    IF s = <<>> THEN s
    ELSE IF s[Len(s)] \in chars THEN RStrip(SubSeq(s, 1, Len(s) - 1), chars)
    ELSE s

RECURSIVE LStrip(_, _)
\* s.lstrip(chars)
LStrip(s, chars) ==
    IF s = <<>> THEN s
    ELSE IF s[1] \in chars THEN LStrip(Tail(s), chars)
    ELSE s

\* s.strip()
Strip(s) == LStrip(RStrip(s, Whitespace), Whitespace)

\* None, and a str, as the document chain may return them
NoneText == [isNone |-> TRUE, text |-> <<>>]
Str(s) == [isNone |-> FALSE, text |-> s]

\* (answer or "")
OrEmpty(a) == IF a.isNone \/ a.text = <<>> THEN <<>> ELSE a.text

\* txt.rstrip(".!?") == "Não sei"
IsSentinelExact(txt) == txt = Sentinel
IsSentinel(txt) == RStrip(txt, RStripChars) = Sentinel

\* the dict returned when the retriever found nothing
NoContext == [answer |-> Sentinel, citacoes |-> <<>>, contexto_encontrado |-> FALSE]

\* the dict returned after the document chain answered `a` on `rel`
ResultadoKeepCitations(a, rel) ==
    LET txt == Strip(OrEmpty(a)) IN
    IF IsSentinel(txt)
    THEN [answer |-> Sentinel, citacoes |-> rel, contexto_encontrado |-> TRUE]
    ELSE [answer |-> txt, citacoes |-> rel, contexto_encontrado |-> TRUE]
Resultado(a, rel) ==
    LET txt == Strip(OrEmpty(a)) IN
    IF IsSentinel(txt)
    THEN [answer |-> Sentinel, citacoes |-> <<>>, contexto_encontrado |-> TRUE]
    ELSE [answer |-> txt, citacoes |-> rel, contexto_encontrado |-> TRUE]

\* `if not docs_relacionados`
IsEmptyNever(rel) == FALSE
IsEmpty(rel) == rel = <<>>

\* `if not google_api_key`
KeyMissingNoneOnly(k) == k = "absent"
KeyMissing(k) == k \in {"absent", "empty"}

\* `if not docs`
DocsEmpty(d) == d = <<>>

\* `if retriever and document_chain`
RagEnabledAlways(r, dc) == TRUE
RagEnabled(r, dc) == (~r.isNone) /\ dc

\* None, and an index holding `es`
NoneStore == [isNone |-> TRUE, entries |-> <<>>]
Store(es) == [isNone |-> FALSE, entries |-> es]

\* FAISS.from_texts([chunk]): a new index holding the chunk
FromTexts(c) == Store(<<c>>)

\* vectorstore.add_texts([chunk]): the chunk is appended
AddTextsReplace(vs, c) == Store(<<c>>)
AddTexts(vs, c) == Store(Append(vs.entries, c))

\* the for statement moves to the next item
AdvanceSkip(k) == k + 2
Advance(k) == k + 1

\* where the script goes after a call of a loop body: the sleep is outside
\* the try/except, so it follows a call that raised as well
AfterCallSleepInTry(ok, sleepPc, nextPc) == IF ok THEN sleepPc ELSE nextPc
AfterCall(ok, sleepPc, nextPc) == sleepPc

\* ------------------------------------------------------------- input sets
RECURSIVE SeqsUpTo(_, _)
SeqsUpTo(S, n) ==
    IF n = 0 THEN {<<>>}
    ELSE LET R == SeqsUpTo(S, n - 1) IN
         R \cup {Append(s, c) : s \in R, c \in S}

IsInjective(s) == \A a, b \in 1..Len(s) : s[a] = s[b] => a = b

\* what the retriever may return on an index: at most TopK distinct entries,
\* in any order (the order of their scores); none when no score passes the
\* threshold
Min(a, b) == IF a < b THEN a ELSE b
Retrievable(es) ==
    LET E == {es[k] : k \in 1..Len(es)} IN
    {s \in SeqsUpTo(E, Min(TopK, Len(es))) : IsInjective(s)}

Pads == {<<>>, <<" ">>}
Cores == {Sentinel, <<"S", "i", "m">>, <<>>}
Tails == SeqsUpTo({".", "!", "?", " ", ","}, MaxSuffix)

\* the texts the model may answer
ModelTexts == {NoneText} \cup {Str(p \o c \o t) : p \in Pads, c \in Cores, t \in Tails}
\* the texts the model answers in a run of the whole script
MainTexts == {NoneText, Str(Sentinel), Str(Sentinel \o <<"!", " ">>), Str(<<"S", "i", "m", ".">>)}

NoCall == [kind |-> "none", item |-> 0]
Call(k, n) == [kind |-> k, item |-> n]

Files == 1..nPdf
Zero(S) == [x \in S |-> 0]
Inc(f, x) == [f EXCEPT ![x] = @ + 1]

\* ------------------------------------------------------------------- Init
Init ==
    /\ apiKey \in {"absent", "empty", "present"}
    /\ nPdf \in 0..MaxPdf
    /\ pc = "start"
    /\ llm = FALSE
    /\ msg = 0 /\ file = 0 /\ i = 0
    /\ docs = <<>> /\ chunks = <<>> /\ vectorstore = NoneStore
    /\ retriever = NoneStore /\ document_chain = FALSE
    /\ docs_relacionados = <<>> /\ answer = <<>> /\ resposta = <<>>
    /\ lastRag = "none"
    /\ triageCalls = Zero(1..NumTestes)
    /\ loadCalls = Zero(1..nPdf)
    /\ loaded = 0
    /\ embedCalls = <<>> /\ embedOk = <<>>
    /\ ragCalls = Zero(1..NumTestes)
    /\ retrieverCalls = 0 /\ chainCalls = 0
    /\ sleeps = [k \in {"triage", "embed", "rag"} |-> 0]
    /\ unslept = NoCall
    /\ failed = {}

env == <<apiKey, nPdf>>
setupLocals == <<file, i, docs, chunks, vectorstore>>
ragLocals == <<docs_relacionados, answer, resposta, lastRag, retrieverCalls, chainCalls>>
setupCounts == <<loadCalls, loaded, embedCalls, embedOk>>

\* ---------------------------------------------------------------- actions
\* main, lines 159-166 and 180: the credential check and the clients
CheckKey ==
    /\ pc = "start"
    /\ IF KeyMissing(apiKey)
       THEN /\ pc' = "fatal"
            /\ UNCHANGED <<llm, msg>>
       ELSE /\ llm' = TRUE
            /\ msg' = 1
            /\ pc' = "triage_call"
    /\ UNCHANGED <<env, setupLocals, retriever, document_chain, ragLocals,
                   triageCalls, setupCounts, ragCalls, sleeps, unslept, failed>>

\* main, lines 182-189: one triage call, which returns or raises
TriageCall ==
    /\ pc = "triage_call"
    /\ \E ok \in BOOLEAN :
         /\ failed' = IF ok THEN failed ELSE failed \cup {"triage"}
         /\ pc' = AfterCall(ok, "triage_sleep", "triage_next")
    /\ triageCalls' = Inc(triageCalls, msg)
    /\ unslept' = Call("triage", msg)
    /\ UNCHANGED <<env, llm, msg, setupLocals, retriever, document_chain,
                   ragLocals, setupCounts, ragCalls, sleeps>>

\* main, lines 192-193
TriageSleep ==
    /\ pc = "triage_sleep"
    /\ sleeps' = Inc(sleeps, "triage")
    /\ unslept' = NoCall
    /\ pc' = "triage_next"
    /\ UNCHANGED <<env, llm, msg, setupLocals, retriever, document_chain,
                   ragLocals, triageCalls, setupCounts, ragCalls, failed>>

\* main, line 181 (next message) and, after the last one, line 197 with
\* setup_rag_chain lines 70-71
TriageNext ==
    /\ pc = "triage_next"
    /\ IF Advance(msg) > NumTestes
       THEN /\ file' = 1
            /\ pc' = IF nPdf >= 1 THEN "load_call" ELSE "check_docs"
            /\ msg' = msg
       ELSE /\ msg' = Advance(msg)
            /\ pc' = "triage_call"
            /\ file' = file
    /\ UNCHANGED <<env, llm, i, docs, chunks, vectorstore, retriever,
                   document_chain, ragLocals, triageCalls, setupCounts,
                   ragCalls, sleeps, unslept, failed>>

\* setup_rag_chain, lines 71-77: one file is loaded, or fails and is skipped
LoadCall ==
    /\ pc = "load_call"
    /\ loadCalls' = Inc(loadCalls, file)
    /\ \/ /\ failed' = failed \cup {"load"}
          /\ docs' = docs
          /\ loaded' = loaded
       \/ /\ \E p \in 1..MaxPages : docs' = docs \o [k \in 1..p |-> file]
          /\ failed' = failed
          /\ loaded' = loaded + 1
    /\ file' = Advance(file)
    /\ pc' = IF file' > nPdf THEN "check_docs" ELSE "load_call"
    /\ UNCHANGED <<env, llm, msg, i, chunks, vectorstore, retriever,
                   document_chain, ragLocals, triageCalls, embedCalls, embedOk,
                   ragCalls, sleeps, unslept>>

\* setup_rag_chain, lines 79-81
CheckDocs ==
    /\ pc = "check_docs"
    /\ IF DocsEmpty(docs)
       THEN /\ retriever' = NoneStore
            /\ document_chain' = FALSE
            /\ pc' = "rag_gate"
       ELSE /\ pc' = "split"
            /\ UNCHANGED <<retriever, document_chain>>
    /\ UNCHANGED <<env, llm, msg, setupLocals, ragLocals, triageCalls,
                   setupCounts, ragCalls, sleeps, unslept, failed>>

\* setup_rag_chain, lines 85-93: the splitter yields the chunks (none when
\* the pages hold no text)
Split ==
    /\ pc = "split"
    /\ \E n \in 0..MaxChunks :
         /\ chunks' = [k \in 1..n |-> k]
         /\ embedCalls' = [k \in 1..n |-> 0]
         /\ embedOk' = [k \in 1..n |-> "pending"]
         /\ pc' = IF n = 0 THEN "make_retriever" ELSE "embed_call"
    /\ vectorstore' = NoneStore
    /\ i' = 1
    /\ UNCHANGED <<env, llm, msg, file, docs, retriever, document_chain,
                   ragLocals, triageCalls, loadCalls, loaded, ragCalls, sleeps,
                   unslept, failed>>

\* setup_rag_chain, lines 94-115: the chunk is embedded and put in the index,
\* or the call raises and the chunk is left out
EmbedCall ==
    /\ pc = "embed_call"
    /\ embedCalls' = Inc(embedCalls, i)
    /\ unslept' = Call("embed", i)
    /\ \E ok \in BOOLEAN :
         /\ IF ok
            THEN /\ vectorstore' = IF vectorstore.isNone
                                   THEN FromTexts(chunks[i])
                                   ELSE AddTexts(vectorstore, chunks[i])
                 /\ embedOk' = [embedOk EXCEPT ![i] = "ok"]
                 /\ failed' = failed
            ELSE /\ vectorstore' = vectorstore
                 /\ embedOk' = [embedOk EXCEPT ![i] = "err"]
                 /\ failed' = failed \cup {"embed"}
         /\ pc' = AfterCall(ok, "embed_sleep", "embed_next")
    /\ UNCHANGED <<env, llm, msg, file, i, docs, chunks, retriever,
                   document_chain, ragLocals, triageCalls, loadCalls, loaded,
                   ragCalls, sleeps>>

\* setup_rag_chain, line 118
EmbedSleep ==
    /\ pc = "embed_sleep"
    /\ sleeps' = Inc(sleeps, "embed")
    /\ unslept' = NoCall
    /\ pc' = "embed_next"
    /\ UNCHANGED <<env, llm, msg, setupLocals, retriever, document_chain,
                   ragLocals, triageCalls, setupCounts, ragCalls, failed>>

\* setup_rag_chain, line 93: the next chunk, or the end of the loop
EmbedNext ==
    /\ pc = "embed_next"
    /\ IF Advance(i) > Len(chunks)
       THEN /\ pc' = "make_retriever"
            /\ i' = i
       ELSE /\ i' = Advance(i)
            /\ pc' = "embed_call"
    /\ UNCHANGED <<env, llm, msg, file, docs, chunks, vectorstore, retriever,
                   document_chain, ragLocals, triageCalls, setupCounts,
                   ragCalls, sleeps, unslept, failed>>

\* setup_rag_chain, lines 122-127: vectorstore.as_retriever.  On None it
\* raises AttributeError, which nothing in main catches.  On return the
\* locals of setup_rag_chain are gone.
MakeRetriever ==
    /\ pc = "make_retriever"
    /\ IF vectorstore.isNone
       THEN /\ pc' = "crashed"
            /\ UNCHANGED <<retriever, document_chain, setupLocals>>
       ELSE /\ retriever' = vectorstore
            /\ document_chain' = TRUE
            /\ pc' = "rag_gate"
            /\ file' = 0 /\ i' = 0
            /\ docs' = <<>> /\ chunks' = <<>> /\ vectorstore' = NoneStore
    /\ UNCHANGED <<env, llm, msg, ragLocals, triageCalls, setupCounts,
                   ragCalls, sleeps, unslept, failed>>

\* main, lines 199-201
RagGate ==
    /\ pc = "rag_gate"
    /\ IF RagEnabled(retriever, document_chain)
       THEN /\ msg' = 1
            /\ pc' = "rag_retrieve"
       ELSE /\ pc' = "finish"
            /\ msg' = msg
    /\ UNCHANGED <<env, llm, setupLocals, retriever, document_chain, ragLocals,
                   triageCalls, setupCounts, ragCalls, sleeps, unslept, failed>>

\* main line 203 and perguntar_politica_rag lines 132-135: the retriever
\* embeds the question and searches the index; it raises, or returns the
\* chunks above the threshold; with none the function returns at once
RagRetrieve ==
    /\ pc = "rag_retrieve"
    /\ ragCalls' = Inc(ragCalls, msg)
    /\ answer' = <<>>
    /\ chainCalls' = 0
    /\ IF retriever.isNone
       THEN \* None.invoke raises AttributeError before any call is issued
            /\ retrieverCalls' = 0
            /\ docs_relacionados' = <<>>
            /\ lastRag' = "raised"
            /\ failed' = failed \cup {"rag"}
            /\ pc' = AfterCall(FALSE, "rag_sleep", "rag_next")
            /\ UNCHANGED <<resposta, unslept>>
       ELSE /\ retrieverCalls' = 1
            /\ unslept' = Call("qembed", msg)
            /\ \/ /\ docs_relacionados' = <<>>
                  /\ lastRag' = "raised"
                  /\ failed' = failed \cup {"rag"}
                  /\ pc' = AfterCall(FALSE, "rag_sleep", "rag_next")
                  /\ resposta' = resposta
               \/ \E rel \in Retrievable(retriever.entries) :
                    /\ docs_relacionados' = rel
                    /\ failed' = failed
                    /\ IF IsEmpty(rel)
                       THEN /\ resposta' = <<NoContext>>
                            /\ lastRag' = "returned"
                            /\ pc' = AfterCall(TRUE, "rag_sleep", "rag_next")
                       ELSE /\ resposta' = resposta
                            /\ lastRag' = "none"
                            /\ pc' = "rag_answer"
    /\ UNCHANGED <<env, llm, msg, setupLocals, retriever, document_chain,
                   triageCalls, setupCounts, sleeps>>

\* perguntar_politica_rag lines 137-147: the document chain asks the model;
\* it raises, or returns a text (one of T), which is normalised
RagAnswerWith(T) ==
    /\ pc = "rag_answer"
    /\ chainCalls' = chainCalls + 1
    /\ unslept' = Call("answer", msg)
    /\ \/ /\ lastRag' = "raised"
          /\ failed' = failed \cup {"rag"}
          /\ pc' = AfterCall(FALSE, "rag_sleep", "rag_next")
          /\ UNCHANGED <<answer, resposta>>
       \/ \E a \in T :
            /\ answer' = <<a>>
            /\ resposta' = <<Resultado(a, docs_relacionados)>>
            /\ lastRag' = "returned"
            /\ failed' = failed
            /\ pc' = AfterCall(TRUE, "rag_sleep", "rag_next")
    /\ UNCHANGED <<env, llm, msg, setupLocals, retriever, document_chain,
                   docs_relacionados, retrieverCalls, triageCalls, setupCounts,
                   ragCalls, sleeps>>

RagAnswer == RagAnswerWith(MainTexts)

\* main, lines 212-213
RagSleep ==
    /\ pc = "rag_sleep"
    /\ sleeps' = Inc(sleeps, "rag")
    /\ unslept' = NoCall
    /\ pc' = "rag_next"
    /\ UNCHANGED <<env, llm, msg, setupLocals, retriever, document_chain,
                   ragLocals, triageCalls, setupCounts, ragCalls, failed>>

\* main, line 201: the next message, or the end of the loop
RagNext ==
    /\ pc = "rag_next"
    /\ IF Advance(msg) > NumTestes
       THEN /\ pc' = "finish"
            /\ msg' = msg
       ELSE /\ msg' = Advance(msg)
            /\ pc' = "rag_retrieve"
    /\ UNCHANGED <<env, llm, setupLocals, retriever, document_chain, ragLocals,
                   triageCalls, setupCounts, ragCalls, sleeps, unslept, failed>>

\* main, line 215: "Script finalizado."
Finish ==
    /\ pc = "finish"
    /\ pc' = "done"
    /\ UNCHANGED <<env, llm, msg, setupLocals, retriever, document_chain,
                   ragLocals, triageCalls, setupCounts, ragCalls, sleeps,
                   unslept, failed>>

Next ==
    \/ CheckKey
    \/ TriageCall
    \/ TriageSleep
    \/ TriageNext
    \/ LoadCall
    \/ CheckDocs
    \/ Split
    \/ EmbedCall
    \/ EmbedSleep
    \/ EmbedNext
    \/ MakeRetriever
    \/ RagGate
    \/ RagRetrieve
    \/ RagAnswer
    \/ RagSleep
    \/ RagNext
    \/ Finish

Spec == Init /\ [][Next]_vars

\* ------------------------------------------------------------------------
\* perguntar_politica_rag on its own: one call, for any question, on any
\* index the build can leave, with any text of ModelTexts as model answer.
InitRag ==
    /\ apiKey = "present"
    /\ nPdf = 1
    /\ pc = "rag_retrieve"
    /\ llm = TRUE
    /\ msg \in 1..NumTestes
    /\ file = 0 /\ i = 0
    /\ docs = <<>> /\ chunks = <<>> /\ vectorstore = NoneStore
    /\ \E n \in 1..MaxChunks : retriever = Store([k \in 1..n |-> k])
    /\ document_chain = TRUE
    /\ docs_relacionados = <<>> /\ answer = <<>> /\ resposta = <<>>
    /\ lastRag = "none"
    /\ triageCalls = Zero(1..NumTestes)
    /\ loadCalls = Zero(1..nPdf)
    /\ loaded = 0
    /\ embedCalls = <<>> /\ embedOk = <<>>
    /\ ragCalls = Zero(1..NumTestes)
    /\ retrieverCalls = 0 /\ chainCalls = 0
    /\ sleeps = [k \in {"triage", "embed", "rag"} |-> 0]
    /\ unslept = NoCall
    /\ failed = {}

RagAnswerAny == RagAnswerWith(ModelTexts)

NextRag ==
    \/ RagRetrieve
    \/ RagAnswerAny

SpecRag == InitRag /\ [][NextRag]_vars

\* ------------------------------------------------------------------------
\* Properties.

AllOf(f, n) == \A x \in DOMAIN f : f[x] = n
IndexEnabled == (~retriever.isNone) /\ document_chain
NoRagActivity ==
    /\ AllOf(ragCalls, 0)
    /\ retrieverCalls = 0
    /\ chainCalls = 0
    /\ sleeps["rag"] = 0
    /\ resposta = <<>>

\* C1: when pages were loaded but the splitter yields no chunk,
\* setup_rag_chain does not raise: it returns (None, None), and main issues
\* no RAG query and finishes normally.
C1_NoChunksDisablesRag ==
    (docs # <<>> /\ chunks = <<>> /\ pc \notin {"load_call", "check_docs", "split"})
        => /\ pc \in {"make_retriever", "rag_gate", "finish", "done"}
           /\ NoRagActivity

\* C2: with zero valid PDFs (no *.pdf file, or every load failed) the
\* builder issues no embedding call and returns (None, None), and main skips
\* the RAG loop: no retrieval call, no model call, no RAG delay.
C2_NoValidPdfNoProviderCall ==
    (loaded = 0) =>
        /\ pc \in {"start", "fatal", "triage_call", "triage_sleep", "triage_next",
                   "load_call", "check_docs", "rag_gate", "finish", "done"}
        /\ embedCalls = <<>>
        /\ sleeps["embed"] = 0
        /\ NoRagActivity
        /\ (pc \in {"rag_gate", "finish", "done"} => retriever.isNone /\ ~document_chain)

C2_Witness ==
    /\ pc = "done"
    /\ nPdf >= 1
    /\ loaded = 0
    /\ AllOf(loadCalls, 1)

\* C3: when the retriever returns no chunk, perguntar_politica_rag returns
\* exactly {"answer": "Não sei", "citacoes": [], "contexto_encontrado":
\* False} and the document chain is not invoked for that question.
C3_EmptyRetrievalGivesSentinel ==
    (pc \in {"rag_answer", "rag_sleep", "rag_next"} /\ lastRag # "raised"
        /\ docs_relacionados = <<>>)
        => /\ pc # "rag_answer"
           /\ lastRag = "returned"
           /\ resposta = <<[answer |-> <<"N", "ã", "o", " ", "s", "e", "i">>,
                            citacoes |-> <<>>,
                            contexto_encontrado |-> FALSE]>>
           /\ chainCalls = 0
           /\ answer = <<>>

C3_Witness ==
    /\ pc = "rag_sleep"
    /\ lastRag = "returned"
    /\ docs_relacionados = <<>>
    /\ retrieverCalls = 1
    /\ msg = 2

\* s[lo..hi] is the text s without its surrounding whitespace
IsTrimOf(s, lo, hi) ==
    /\ lo <= hi + 1
    /\ \A k \in 1..Len(s) : (k < lo \/ k > hi) => s[k] \in {" ", "\n"}
    /\ lo <= hi => (s[lo] \notin {" ", "\n"} /\ s[hi] \notin {" ", "\n"})

\* the text t is "Não sei" followed by a run of '.', '!' and '?'
IsSentinelWithTail(t) ==
    /\ Len(t) >= 7
    /\ SubSeq(t, 1, 7) = <<"N", "ã", "o", " ", "s", "e", "i">>
    /\ \A k \in 8..Len(t) : t[k] \in {".", "!", "?"}

\* the text of a chain result (None counts as the empty text)
TextOf(a) == IF a.isNone THEN <<>> ELSE a.text

\* C4: with a non-empty retrieval, a model text that is the sentinel once
\* trimmed and stripped of its trailing '.', '!' and '?' gives answer "Não
\* sei" with contexto_encontrado True; any other model text is returned
\* whitespace-trimmed and otherwise unchanged, with the retrieved chunks as
\* citations.
C4_SentinelNormalised ==
    (lastRag = "returned" /\ docs_relacionados # <<>>) =>
        /\ Len(answer) = 1 /\ Len(resposta) = 1
        /\ resposta[1].contexto_encontrado = TRUE
        /\ LET s == TextOf(answer[1]) IN
           \A lo \in 1..(Len(s) + 1), hi \in 0..Len(s) :
             IsTrimOf(s, lo, hi) =>
                LET t == SubSeq(s, lo, hi) IN
                IF IsSentinelWithTail(t)
                THEN resposta[1].answer = <<"N", "ã", "o", " ", "s", "e", "i">>
                ELSE /\ resposta[1].answer = t
                     /\ resposta[1].citacoes = docs_relacionados

C4_Witness ==
    /\ lastRag = "returned"
    /\ docs_relacionados # <<>>
    /\ Len(answer) = 1
    /\ answer[1] = Str(<<" ", "N", "ã", "o", " ", "s", "e", "i", "?", "!">>)
    /\ resposta[1].answer = <<"N", "ã", "o", " ", "s", "e", "i">>
    /\ resposta[1].contexto_encontrado

\* C5: without the GOOGLE_API_KEY credential (absent or empty) main stops
\* before any work: no client, no triage call, no load, no embedding call,
\* no RAG query, no delay.
C5_MissingKeyIsFatal ==
    (apiKey \in {"absent", "empty"}) =>
        /\ pc \in {"start", "fatal"}
        /\ llm = FALSE
        /\ AllOf(triageCalls, 0)
        /\ AllOf(loadCalls, 0)
        /\ loaded = 0 /\ docs = <<>>
        /\ embedCalls = <<>>
        /\ \A k \in DOMAIN sleeps : sleeps[k] = 0
        /\ unslept = NoCall
        /\ NoRagActivity

C5_Witness ==
    /\ pc = "fatal"
    /\ apiKey = "empty"

\* C6: every item is attempted exactly once whatever fails: no call is
\* issued twice for an item, and when the run ends every test message had
\* one triage call, every PDF one load, every chunk one embedding call and,
\* with the index enabled, every test message one RAG query.
C6_EachItemOnce ==
    /\ \A m \in DOMAIN triageCalls : triageCalls[m] <= 1
    /\ \A f \in DOMAIN loadCalls : loadCalls[f] <= 1
    /\ \A c \in DOMAIN embedCalls : embedCalls[c] <= 1
    /\ \A m \in DOMAIN ragCalls : ragCalls[m] <= 1
    /\ retrieverCalls <= 1 /\ chainCalls <= 1
    /\ (pc \in {"done", "crashed"}) =>
          /\ DOMAIN triageCalls = 1..6 /\ AllOf(triageCalls, 1)
          /\ DOMAIN loadCalls = 1..nPdf /\ AllOf(loadCalls, 1)
          /\ AllOf(embedCalls, 1)
          /\ \A c \in DOMAIN embedOk : embedOk[c] \in {"ok", "err"}
          /\ (pc = "crashed" => Len(embedCalls) = Len(chunks))
          /\ IndexEnabled => (DOMAIN ragCalls = 1..6 /\ AllOf(ragCalls, 1))

C6_Witness ==
    /\ pc = "done"
    /\ IndexEnabled
    /\ failed = {"triage", "load", "embed", "rag"}
    /\ Len(embedCalls) = 2
    /\ AllOf(ragCalls, 1)

\* a step that issues a provider call
IssuesCall ==
    \/ pc \in {"triage_call", "embed_call", "rag_answer"}
    \/ pc = "rag_retrieve" /\ ~retriever.isNone

\* C7 as stated: between any provider call (triage, chunk embedding,
\* question embedding, RAG answer) and the next provider call at least one
\* sleep occurs.
C7_PauseBetweenAnyTwoCalls == [][IssuesCall => unslept = NoCall]_vars

\* C7 amended: between any provider call and the next one at least one sleep
\* occurs, except between the question embedding call of a RAG query and the
\* answer model call of the same query.
C7_PauseExceptWithinQuery ==
    [][IssuesCall =>
          \/ unslept = NoCall
          \/ pc = "rag_answer" /\ unslept = Call("qembed", msg)]_vars

C7_Witness ==
    /\ pc = "embed_call"
    /\ i = 2
    /\ embedOk[1] = "err"
    /\ sleeps["embed"] = 1
    /\ unslept = NoCall

RECURSIVE OkChunks(_, _)
\* the chunks, among the first n of cs, whose embedding call succeeded
OkChunks(cs, n) ==
    IF n = 0 THEN <<>>
    ELSE IF embedOk[n] = "ok" THEN Append(OkChunks(cs, n - 1), cs[n])
    ELSE OkChunks(cs, n - 1)

IsPrefix(s, t) == Len(s) <= Len(t) /\ SubSeq(t, 1, Len(s)) = s

InBuild == pc \in {"embed_call", "embed_sleep", "embed_next", "make_retriever"}

\* C8 as stated: after chunk i is processed the index holds the chunks 1..i
\* in order, and at the end of the build one entry per chunk.
C8_IndexHoldsEveryChunk ==
    /\ (pc \in {"embed_sleep", "embed_next"}) =>
          vectorstore.entries = SubSeq(chunks, 1, i)
    /\ (pc = "make_retriever") => vectorstore.entries = chunks

\* C8 amended: the index is append-only and after chunk i is processed it
\* holds, in chunk order, exactly the chunks among 1..i whose embedding call
\* succeeded (it is None while there is none); at the end of the build it
\* has one entry per successfully embedded chunk.
C8_IndexHoldsEmbeddedChunks ==
    /\ [](/\ (pc = "embed_call") =>
                vectorstore.entries = OkChunks(chunks, i - 1)
          /\ (pc \in {"embed_sleep", "embed_next", "make_retriever", "crashed"}) =>
                vectorstore.entries = OkChunks(chunks, IF chunks = <<>> THEN 0 ELSE i)
          /\ (pc \in {"make_retriever", "crashed"} /\ chunks # <<>>) => i = Len(chunks)
          /\ (InBuild \/ pc = "crashed") => (vectorstore.isNone <=> vectorstore.entries = <<>>)
          /\ (pc \in {"rag_gate", "rag_retrieve", "rag_answer", "rag_sleep",
                      "rag_next", "finish", "done"} /\ loaded > 0) =>
                /\ ~retriever.isNone
                /\ retriever.entries
                     = OkChunks([k \in 1..Len(embedOk) |-> k], Len(embedOk)))
    /\ [][(InBuild /\ InBuild') =>
             IsPrefix(vectorstore.entries, vectorstore'.entries)]_vars

C8_Witness ==
    /\ pc = "make_retriever"
    /\ Len(chunks) = 2
    /\ embedOk = <<"err", "ok">>
    /\ vectorstore = [isNone |-> FALSE, entries |-> <<chunks[2]>>]

\* C9: whatever per-item calls fail, the failure of every chunk embedding
\* call included, a run that passed the credential check reaches the final
\* step: no per-item failure pattern ends in an uncaught error.
C9_PerItemFailuresNeverCrash ==
    ~(pc = "crashed" /\ chunks # <<>>)

\* C10: the three fields of a result agree: contexto_encontrado False gives
\* "Não sei" and no citation; "Não sei" gives no citation; citations give
\* contexto_encontrado True, an answer other than "Não sei" and exactly the
\* chunks the retriever returned.
C10_ResultConsistent ==
    (lastRag = "returned") =>
        /\ Len(resposta) = 1
        /\ LET r == resposta[1]
               naoSei == <<"N", "ã", "o", " ", "s", "e", "i">> IN
           /\ (~r.contexto_encontrado) => (r.answer = naoSei /\ r.citacoes = <<>>)
           /\ (r.answer = naoSei) => r.citacoes = <<>>
           /\ (r.citacoes # <<>>) =>
                 /\ r.contexto_encontrado
                 /\ r.answer # naoSei
                 /\ r.citacoes = docs_relacionados

C10_Witness ==
    /\ lastRag = "returned"
    /\ Len(resposta) = 1
    /\ Len(resposta[1].citacoes) = 2
    /\ resposta[1].citacoes = docs_relacionados
    /\ resposta[1].answer = <<"S", "i", "m", ".">>

====
